---- MODULE Spec2Model ----
(***************************************************************************)
(* Model of the ledger of src/main.rs: a Ledger of Accounts, each an       *)
(* AccountState (Open/Locked with available and held) and an oplog of      *)
(* OperationStates keyed by transaction id; one row of the input file is   *)
(* deserialized into a TransactionEntry and applied by apply_transaction.  *)
(*                                                                         *)
(* Amounts are f32.  An amount is modelled as <<"fin", n>> for the         *)
(* integer-valued float n, <<"inf", s>> for the infinity of sign s and     *)
(* <<"nan", 0>> for NaN.  Sums of integer-valued floats are rounded to the *)
(* 24-bit significand of f32, ties to even, as IEEE-754 addition does.     *)
(* Balances start at +0.0 and sums never produce -0.0 from +0.0, so one    *)
(* zero suffices.  The finite magnitudes reached stay far below 2^128, so  *)
(* overflow to infinity does not occur in finite sums.                     *)
(***************************************************************************)
EXTENDS Integers, Sequences, FiniteSets, TLC

\* ---------------------------------------------------------------- bounds
MaxClient == 2
MaxTx == 2
MaxRows == 2
MaxAccountRows == 4
MaxLongRows == 5
MaxPairRows == 2

ClientIds == 1..MaxClient
TxIds == 1..MaxTx

\* the client of the single-account specification
TheClient == CHOOSE c \in ClientIds : TRUE

\* ------------------------------------------------------------- f32 values
F32MantissaBits == 24

RECURSIVE Pow2(_)
Pow2(n) == IF n = 0 THEN 1 ELSE 2 * Pow2(n - 1)

F32Exact == Pow2(F32MantissaBits)

Fin(n) == <<"fin", n>>
NaN == <<"nan", 0>>
PosInf == <<"inf", 1>>
Absent == <<"absent", 0>>

IsNaN(x) == x[1] = "nan"
IsInf(x) == x[1] = "inf"
IsFin(x) == x[1] = "fin"

\* the spacing of f32 values around the magnitude a
RECURSIVE Ulp(_)
Ulp(a) == IF a < F32Exact THEN 1 ELSE 2 * Ulp(a \div 2)

\* the significand nearest to q + r/u, ties to even
NearestEven(q, r, u) ==
    IF 2 * r < u THEN q
    ELSE IF 2 * r > u THEN q + 1
    ELSE IF q % 2 = 0 THEN q ELSE q + 1

\* the multiple of the spacing u nearest to the magnitude a
RoundTo(a, u) == NearestEven(a \div u, a % u, u) * u

\* round the integer n to the nearest f32, ties to the even significand
RoundF32(n) == IF n < 0 THEN -RoundTo(-n, Ulp(-n)) ELSE RoundTo(n, Ulp(n))

F32Neg(x) ==
    IF IsFin(x) THEN Fin(-x[2])
    ELSE IF IsInf(x) THEN <<"inf", -x[2]>>
    ELSE NaN

F32Add(x, y) ==
    IF IsNaN(x) \/ IsNaN(y) THEN NaN
    ELSE IF IsInf(x) /\ IsInf(y) THEN (IF x[2] = y[2] THEN x ELSE NaN)
    ELSE IF IsInf(x) THEN x
    ELSE IF IsInf(y) THEN y
    ELSE Fin(RoundF32(x[2] + y[2]))

F32Sub(x, y) == F32Add(x, F32Neg(y))

\* x > y on f32: false whenever an operand is NaN
F32Gt(x, y) ==
    IF IsNaN(x) \/ IsNaN(y) THEN FALSE
    ELSE IF IsFin(x) /\ IsFin(y) THEN x[2] > y[2]
    ELSE IF IsInf(x) /\ IsInf(y) THEN x[2] > y[2]
    ELSE IF IsInf(x) THEN x[2] = 1
    ELSE y[2] = -1

\* x >= y on f32
F32Ge(x, y) == (~IsNaN(x)) /\ (~IsNaN(y)) /\ ~F32Gt(y, x)

\* the values the amount field of an input row takes in the model
Amounts == {Fin(-1), Fin(1), Fin(F32Exact), PosInf, NaN}

\* the finite amounts among them
FiniteAmounts == {amt \in Amounts : IsFin(amt)}

\* amounts one binade further up, where the f32 values are the even numbers
LargeAmounts == {Fin(1), Fin(F32Exact + F32Exact)}

\* the amount field of a row whose event ignores it
IgnoredAmounts == {Fin(1)}

\* the labels of the type field; "refund" stands for any unrecognized label
Labels == {"deposit", "withdrawal", "dispute", "resolve", "chargeback", "refund"}

\* ------------------------------------------------------------ data model
EmptyMap == [x \in {} |-> 0]

RegularDeposit(amount) == [k |-> "RegularDeposit", amount |-> amount]
DisputedDeposit(amount) == [k |-> "DisputedDeposit", amount |-> amount]
FinalDeposit == [k |-> "FinalDeposit", amount |-> Absent]
AfterWithdrawal == [k |-> "AfterWithdrawal", amount |-> Absent]

Open(available, held) == [tag |-> "Open", available |-> available, held |-> held]
Locked(available, held) == [tag |-> "Locked", available |-> available, held |-> held]

Deposit(amount) == [k |-> "Deposit", amount |-> amount]
Withdrawal(amount) == [k |-> "Withdrawal", amount |-> amount]
Dispute == [k |-> "Dispute", amount |-> Absent]
Resolve == [k |-> "Resolve", amount |-> Absent]
Chargeback == [k |-> "Chargeback", amount |-> Absent]

None == [k |-> "None", amount |-> Absent]

Account(state, oplog) == [state |-> state, oplog |-> oplog]

TransactionEntry(t, client_id, uid, amount) ==
    [t |-> t, client_id |-> client_id, uid |-> uid, amount |-> amount]

AppendOperation(state, op) == [ok |-> TRUE, kind |-> "AppendOperation", state |-> state, op |-> op, err |-> ""]
ModifyOperation(state, op) == [ok |-> TRUE, kind |-> "ModifyOperation", state |-> state, op |-> op, err |-> ""]
Err(reason) == [ok |-> FALSE, kind |-> "Err", state |-> Open(Fin(0), Fin(0)), op |-> None, err |-> reason]

\* --------------------------------------------------- transition function
\* a Deposit arm that holds the deposited amount as well
deposit_arm_held(available, held, amount) ==
    AppendOperation(Open(F32Add(available, amount), F32Add(held, amount)),
                    RegularDeposit(amount))

\* (Open, None, Deposit)
deposit_arm(available, held, amount) ==
    AppendOperation(Open(F32Add(available, amount), held), RegularDeposit(amount))

\* (Open, None, Withdrawal)
withdrawal_arm(available, held, amount) ==
    IF F32Gt(amount, available)
    THEN Err("InsufficientFunds")
    ELSE AppendOperation(Open(F32Sub(available, amount), held), AfterWithdrawal)

\* (Open, Some(RegularDeposit), Dispute)
dispute_arm(available, held, amount) ==
    ModifyOperation(Open(F32Sub(available, amount), F32Add(held, amount)),
                    DisputedDeposit(amount))

\* a Resolve arm that forgets the amount of the deposit
resolve_arm_forgets(available, held, amount) ==
    ModifyOperation(Open(F32Add(available, amount), F32Sub(held, amount)),
                    RegularDeposit(Fin(0)))

\* (Open, Some(DisputedDeposit), Resolve)
resolve_arm(available, held, amount) ==
    ModifyOperation(Open(F32Add(available, amount), F32Sub(held, amount)),
                    RegularDeposit(amount))

\* a Chargeback arm that leaves the account Open
chargeback_arm_open(available, held, amount) ==
    ModifyOperation(Open(available, F32Sub(held, amount)), FinalDeposit)

\* (Open, Some(DisputedDeposit), Chargeback)
chargeback_arm(available, held, amount) ==
    ModifyOperation(Locked(available, F32Sub(held, amount)), FinalDeposit)

\* process_operation without the arm of the Locked account
process_operation_no_lock(op, op_to_modify, a) ==
    IF op_to_modify.k = "None" /\ op.k = "Deposit"
    THEN deposit_arm(a.state.available, a.state.held, op.amount)
    ELSE IF op_to_modify.k = "None" /\ op.k = "Withdrawal"
    THEN withdrawal_arm(a.state.available, a.state.held, op.amount)
    ELSE IF op_to_modify.k = "RegularDeposit" /\ op.k = "Dispute"
    THEN dispute_arm(a.state.available, a.state.held, op_to_modify.amount)
    ELSE IF op_to_modify.k = "DisputedDeposit" /\ op.k = "Resolve"
    THEN resolve_arm(a.state.available, a.state.held, op_to_modify.amount)
    ELSE IF op_to_modify.k = "DisputedDeposit" /\ op.k = "Chargeback"
    THEN chargeback_arm(a.state.available, a.state.held, op_to_modify.amount)
    ELSE Err("IllegalStateTransition")

\* process_operation with a Dispute arm that takes any deposit record that
\* still carries its amount
process_operation_any_deposit(op, op_to_modify, a) ==
    IF a.state.tag = "Locked" THEN Err("AccountLocked")
    ELSE IF op_to_modify.k = "None" /\ op.k = "Deposit"
    THEN deposit_arm(a.state.available, a.state.held, op.amount)
    ELSE IF op_to_modify.k = "None" /\ op.k = "Withdrawal"
    THEN withdrawal_arm(a.state.available, a.state.held, op.amount)
    ELSE IF op_to_modify.k \in {"RegularDeposit", "DisputedDeposit"} /\ op.k = "Dispute"
    THEN dispute_arm(a.state.available, a.state.held, op_to_modify.amount)
    ELSE IF op_to_modify.k = "DisputedDeposit" /\ op.k = "Resolve"
    THEN resolve_arm(a.state.available, a.state.held, op_to_modify.amount)
    ELSE IF op_to_modify.k = "DisputedDeposit" /\ op.k = "Chargeback"
    THEN chargeback_arm(a.state.available, a.state.held, op_to_modify.amount)
    ELSE Err("IllegalStateTransition")

\* the match on (state, op_to_modify, op), its arms in the order of the code
process_operation(op, op_to_modify, a) ==
    IF a.state.tag = "Locked" THEN Err("AccountLocked")
    ELSE IF op_to_modify.k = "None" /\ op.k = "Deposit"
    THEN deposit_arm(a.state.available, a.state.held, op.amount)
    ELSE IF op_to_modify.k = "None" /\ op.k = "Withdrawal"
    THEN withdrawal_arm(a.state.available, a.state.held, op.amount)
    ELSE IF op_to_modify.k = "RegularDeposit" /\ op.k = "Dispute"
    THEN dispute_arm(a.state.available, a.state.held, op_to_modify.amount)
    ELSE IF op_to_modify.k = "DisputedDeposit" /\ op.k = "Resolve"
    THEN resolve_arm(a.state.available, a.state.held, op_to_modify.amount)
    ELSE IF op_to_modify.k = "DisputedDeposit" /\ op.k = "Chargeback"
    THEN chargeback_arm(a.state.available, a.state.held, op_to_modify.amount)
    ELSE Err("IllegalStateTransition")

\* ---------------------------------------------------------- event applier
Insert(f, key, v) == [x \in (DOMAIN f) \cup {key} |-> IF x = key THEN v ELSE f[x]]

apply_result_to_account(result, tx_id, a) ==
    IF result.kind = "AppendOperation"
    THEN Account(result.state, Insert(a.oplog, tx_id, result.op))
    ELSE Account(result.state,
                 IF tx_id \in DOMAIN a.oplog
                 THEN [a.oplog EXCEPT ![tx_id] = result.op]
                 ELSE a.oplog)

\* ------------------------------------------------- transaction dispatcher
is_transaction_in_log(tx, a) == tx.uid \in DOMAIN a.oplog

\* the "deposit" and "withdrawal" arms without the look-up of the id
append_arm_unchecked(op, tx, a) == process_operation(op, None, a)

\* the "deposit" and "withdrawal" arms: the id must be new
append_arm(op, tx, a) ==
    IF is_transaction_in_log(tx, a)
    THEN Err("DuplicateTransactionId")
    ELSE process_operation(op, None, a)

\* the referencing arms taking an absent record for a deposit never disputed
modify_arm_default(op, tx, a) ==
    IF ~is_transaction_in_log(tx, a)
    THEN process_operation(op, RegularDeposit(Fin(1)), a)
    ELSE process_operation(op, a.oplog[tx.uid], a)

\* the referencing arms handing an absent record to process_operation
modify_arm_unchecked(op, tx, a) ==
    IF ~is_transaction_in_log(tx, a)
    THEN process_operation(op, None, a)
    ELSE process_operation(op, a.oplog[tx.uid], a)

\* the "dispute", "resolve" and "chargeback" arms: the id must be in the oplog
modify_arm(op, tx, a) ==
    IF ~is_transaction_in_log(tx, a)
    THEN Err("TransactionNotFound")
    ELSE process_operation(op, a.oplog[tx.uid], a)

\* the match of process_transaction on the label of the row
dispatch(tx, a) ==
    IF tx.t = "deposit" THEN append_arm(Deposit(tx.amount), tx, a)
    ELSE IF tx.t = "withdrawal" THEN append_arm(Withdrawal(tx.amount), tx, a)
    ELSE IF tx.t = "dispute" THEN modify_arm(Dispute, tx, a)
    ELSE IF tx.t = "resolve" THEN modify_arm(Resolve, tx, a)
    ELSE IF tx.t = "chargeback" THEN modify_arm(Chargeback, tx, a)
    ELSE Err("UnknownTransactionType")

\* an end of process_transaction that records the id of a rejected row
finish_records_id(result, tx, a) ==
    IF result.ok
    THEN [a |-> apply_result_to_account(result, tx.uid, a), res |-> "Ok",
          kind |-> result.kind]
    ELSE [a |-> Account(a.state, Insert(a.oplog, tx.uid, AfterWithdrawal)),
          res |-> result.err, kind |-> "Err"]

\* the end of process_transaction: an Err has returned early and left the
\* account alone, any other result is applied
finish(result, tx, a) ==
    IF result.ok
    THEN [a |-> apply_result_to_account(result, tx.uid, a), res |-> "Ok",
          kind |-> result.kind]
    ELSE [a |-> a, res |-> result.err, kind |-> "Err"]

process_transaction(tx, a) == finish(dispatch(tx, a), tx, a)

\* ------------------------------------------------------------------ ledger
NewAccount == Account(Open(Fin(0), Fin(0)), EmptyMap)

\* a look-up that hands out the empty account for every row
target_fresh(client_id, l) == NewAccount

\* a look-up that starts a new client from an account already in the Ledger
target_copy(client_id, l) ==
    IF client_id \in DOMAIN l THEN l[client_id]
    ELSE IF DOMAIN l # {} THEN l[CHOOSE d \in DOMAIN l : TRUE]
    ELSE NewAccount

\* the account process_transaction is called on: the client's, or the empty
\* account inserted for a client id seen for the first time
target(client_id, l) == IF client_id \in DOMAIN l THEN l[client_id] ELSE NewAccount

\* the Ledger after the call: the account is in it whatever the outcome
stored(l, client_id, r) ==
    [l |-> Insert(l, client_id, r.a), res |-> r.res, kind |-> r.kind]

apply_transaction(tx, l) ==
    stored(l, tx.client_id, process_transaction(tx, target(tx.client_id, l)))

\* a row deserializes into a TransactionEntry only if it has all four fields
deserialize_transaction_entry(row) == row.amount # Absent

\* the body of the loop of main: a row that does not deserialize is reported
\* and skipped
loop_body(row, l) ==
    IF deserialize_transaction_entry(row)
    THEN apply_transaction(row, l)
    ELSE [l |-> l, res |-> "RowParseFailure", kind |-> "Err"]

\* the line main prints for an account: available, held, their f32 sum and
\* whether the account is Locked (amounts are whole numbers here, so the
\* four printed decimals determine the value)
Report(a) ==
    [available |-> a.state.available,
     held |-> a.state.held,
     total |-> F32Add(a.state.available, a.state.held),
     locked |-> a.state.tag = "Locked"]

\* the table main prints once the input is read, one line per account
Output(l) == [c \in DOMAIN l |-> Report(l[c])]

\* ------------------------------------------------------------------- state
\* accounts: the Ledger; input: the client ids, transaction ids and amounts of
\* the input file, the number of its rows and the number of rows read so far;
\* last: the row read last, with its outcome; prev: the Ledger before that
\* row; created: per client and transaction id, the number of AppendOperation
\* results committed for it; seen: the client ids apply_transaction was called
\* with; progress: the number of leading rows of the input that are the rows
\* of Scenario
VARIABLES accounts, input, last, prev, created, seen, progress

vars == <<accounts, input, last, prev, created, seen, progress>>

NoRow == [t |-> "", client_id |-> 0, uid |-> 0, amount |-> Absent, res |-> "None"]

RowOf(t, c, i, amt) == [t |-> t, client_id |-> c, uid |-> i, amount |-> amt, res |-> "None"]

\* the rows of the end-to-end example: deposit,1,1,5.0; deposit,2,2,3.0;
\* withdrawal,1,3,2.0; dispute,1,1
Scenario ==
    << RowOf("deposit", 1, 1, Fin(5)),
       RowOf("deposit", 2, 2, Fin(3)),
       RowOf("withdrawal", 1, 3, Fin(2)),
       RowOf("dispute", 1, 1, Absent) >>

ScenarioClients == {Scenario[k].client_id : k \in DOMAIN Scenario}
ScenarioTxIds == {Scenario[k].uid : k \in DOMAIN Scenario}
ScenarioAmounts == {Scenario[k].amount : k \in DOMAIN Scenario} \ {Absent}

\* the empty Ledger of main before the first row of the input
InitLedger ==
    /\ accounts = EmptyMap
    /\ last = NoRow
    /\ prev = EmptyMap
    /\ created = [c \in input.clients |-> [i \in input.txs |-> 0]]
    /\ seen = {}
    /\ progress = 0

InputFile(clients, txs, amounts, limit) ==
    [clients |-> clients, txs |-> txs, amounts |-> amounts, limit |-> limit,
     read |-> 0]

\* an input file of at most MaxRows rows over all the clients
Init ==
    /\ input = InputFile(ClientIds, TxIds, Amounts, MaxRows)
    /\ InitLedger

\* an input file of at most MaxAccountRows rows, all of one client
InitAccount ==
    /\ input = InputFile({TheClient}, TxIds, Amounts, MaxAccountRows)
    /\ InitLedger

\* a longer input file, all of one client
InitAccountLong ==
    /\ input = InputFile({TheClient}, TxIds, Amounts, MaxLongRows)
    /\ InitLedger

\* an input file of at most MaxRows rows of one client, with large amounts
InitLarge ==
    /\ input = InputFile({TheClient}, TxIds, LargeAmounts, MaxRows)
    /\ InitLedger

\* two clients, whose rows interleave in the input file
PairClients == {c \in ClientIds : c <= 2}

\* an input file of at most MaxPairRows rows of two clients
InitPair ==
    /\ input = InputFile(PairClients, TxIds, FiniteAmounts, MaxPairRows)
    /\ InitLedger

\* an input file of as many rows as Scenario, over its clients, ids and amounts
InitScenario ==
    /\ input = InputFile(ScenarioClients, ScenarioTxIds, ScenarioAmounts, Len(Scenario))
    /\ InitLedger

\* the row is the next row of Scenario, all the rows before it having been so
Follows(row) ==
    /\ progress = input.read
    /\ input.read < Len(Scenario)
    /\ row = Scenario[input.read + 1]

\* the state after a row with outcome o
Record(row, o) ==
    /\ input' = [input EXCEPT !.read = @ + 1]
    /\ prev' = accounts
    /\ accounts' = o.l
    /\ last' = [row EXCEPT !.res = o.res]
    /\ created' = IF o.kind = "AppendOperation"
                  THEN [created EXCEPT ![row.client_id][row.uid] = @ + 1]
                  ELSE created
    /\ seen' = IF deserialize_transaction_entry(row)
               THEN seen \cup {row.client_id}
               ELSE seen
    /\ progress' = IF Follows(row) THEN progress + 1 ELSE progress

\* one iteration of the loop of main over the records of the input
Row(row) ==
    /\ input.read < input.limit
    /\ Record(row, loop_body(row, accounts))

DepositRow ==
    \E c \in input.clients, i \in input.txs, amt \in input.amounts :
        Row(RowOf("deposit", c, i, amt))

WithdrawalRow ==
    \E c \in input.clients, i \in input.txs, amt \in input.amounts :
        Row(RowOf("withdrawal", c, i, amt))

DisputeRow ==
    \E c \in input.clients, i \in input.txs, amt \in IgnoredAmounts :
        Row(RowOf("dispute", c, i, amt))

ResolveRow ==
    \E c \in input.clients, i \in input.txs, amt \in IgnoredAmounts :
        Row(RowOf("resolve", c, i, amt))

ChargebackRow ==
    \E c \in input.clients, i \in input.txs, amt \in IgnoredAmounts :
        Row(RowOf("chargeback", c, i, amt))

UnknownRow ==
    \E c \in input.clients, i \in input.txs, amt \in IgnoredAmounts :
        Row(RowOf("refund", c, i, amt))

\* a row without the amount field
ShortRow ==
    \E t \in Labels, c \in input.clients, i \in input.txs :
        Row(RowOf(t, c, i, Absent))

Next ==
    \/ DepositRow
    \/ WithdrawalRow
    \/ DisputeRow
    \/ ResolveRow
    \/ ChargebackRow
    \/ UnknownRow
    \/ ShortRow

Spec == Init /\ [][Next]_vars

SpecAccount == InitAccount /\ [][Next]_vars

SpecAccountLong == InitAccountLong /\ [][Next]_vars

SpecLarge == InitLarge /\ [][Next]_vars

SpecPair == InitPair /\ [][Next]_vars

SpecScenario == InitScenario /\ [][Next]_vars

\* ------------------------------------------------------------------ claims
\* process_transaction was called for the last row
Parsed == last.t # "" /\ last.res # "RowParseFailure"

\* the account process_transaction was called on, before and after the call
Pre == target(last.client_id, prev)
Post == accounts[last.client_id]

Rejected == Parsed /\ last.res # "Ok"
Accepted == Parsed /\ last.res = "Ok"

AppendLabels == {"deposit", "withdrawal"}
ModifyLabels == {"dispute", "resolve", "chargeback"}

\* the record the last row refers to, as it was before the row
PreRecord == Pre.oplog[last.uid]

\* C1: a row that process_transaction rejects, whatever its label, id and
\* amount, leaves the account (state and oplog) as it was before the call.
C1_RejectionLeavesAccount == Rejected => Post = Pre

C1_Witness ==
    /\ Rejected
    /\ last.res = "InsufficientFunds"
    /\ DOMAIN Pre.oplog # {}

\* C2: an account that is Locked before a row is the same account after it
\* (tag, available, held and oplog), whatever the row; so from the row that
\* locks it on the account never changes and never returns to Open.
C2_LockedIsFrozen ==
    \A c \in DOMAIN prev : prev[c].state.tag = "Locked" => accounts[c] = prev[c]

C2_Witness ==
    /\ Parsed
    /\ Pre.state.tag = "Locked"
    /\ last.t = "deposit"
    /\ last.uid \notin DOMAIN Pre.oplog
    /\ Post.state.tag = "Locked"

\* C3: every row applied to a Locked account, whatever its label and id, is
\* rejected with AccountLocked.
C3_LockedRejectsWithAccountLocked ==
    (Parsed /\ Pre.state.tag = "Locked") => last.res = "AccountLocked"

\* the (record, event) pairs process_operation accepts
LegalReference(k, t) ==
    \/ t = "dispute" /\ k = "RegularDeposit"
    \/ t \in {"resolve", "chargeback"} /\ k = "DisputedDeposit"

\* the same row applied again leaves the account a as it is
ReplayRejected(r, a) == r.res # "Ok" /\ r.a = a

\* C4: on an Open account a Dispute is accepted only on a RegularDeposit, a
\* Resolve or Chargeback only on a DisputedDeposit; every other pair whose id
\* is in the oplog is rejected with IllegalStateTransition and changes
\* nothing; and an accepted Dispute, Resolve or Chargeback applied a second
\* time in a row is rejected and changes nothing.
C4_ExactPriorState ==
    /\ (Parsed /\ last.t \in ModifyLabels /\ Pre.state.tag = "Open"
          /\ last.uid \in DOMAIN Pre.oplog)
       => IF LegalReference(PreRecord.k, last.t)
          THEN last.res = "Ok"
          ELSE last.res = "IllegalStateTransition" /\ Post = Pre
    /\ (Accepted /\ last.t \in ModifyLabels)
       => ReplayRejected(process_transaction(last, Post), Post)

C4_Witness ==
    /\ Parsed
    /\ last.t = "dispute"
    /\ Pre.state.tag = "Open"
    /\ last.uid \in DOMAIN Pre.oplog
    /\ PreRecord.k = "DisputedDeposit"
    /\ last.res = "IllegalStateTransition"

\* every amount of the account is a finite number
FiniteAccount(a) ==
    /\ IsFin(a.state.available)
    /\ IsFin(a.state.held)
    /\ \A i \in DOMAIN a.oplog : a.oplog[i].amount = Absent \/ IsFin(a.oplog[i].amount)

\* the Resolve is accepted and gives back the account a
Restores(r, a) == r.res = "Ok" /\ r.a = a

\* C5: after an accepted Dispute(id), Resolve(id) is accepted and returns the
\* account to exactly the state it had before the Dispute: available, held,
\* the record of id and every other record.  Stated for the accounts all of
\* whose amounts are finite numbers, where the claim is at its strongest.
C5_DisputeResolveRoundTrip ==
    (Accepted /\ last.t = "dispute" /\ FiniteAccount(Pre))
    => Restores(process_transaction([last EXCEPT !.t = "resolve"], Post), Pre)

\* C6: an accepted Chargeback(id) found the account Open{av, held} and the
\* record DisputedDeposit{amt}, overwrites the record with FinalDeposit and
\* sets the state to Locked{av, held-amt}; and when Deposit, Dispute and
\* Chargeback of one id are the only three rows of the account, the state is
\* Locked{0, 0}.
C6_Chargeback ==
    (Accepted /\ last.t = "chargeback")
    => /\ Pre.state.tag = "Open"
       /\ PreRecord.k = "DisputedDeposit"
       /\ Post.state = Locked(Pre.state.available,
                              F32Sub(Pre.state.held, PreRecord.amount))
       /\ Post.oplog = [Pre.oplog EXCEPT ![last.uid] = FinalDeposit]
       /\ input.read = 3 => Post.state = Locked(Fin(0), Fin(0))

\* C7: a Deposit or Withdrawal whose id is already a key of the oplog,
\* whatever record it points to, is rejected with DuplicateTransactionId and
\* leaves records and balances as they were; and every entry of an oplog was
\* created by exactly one accepted Deposit or Withdrawal.
C7_IdRecordedOnce ==
    /\ (Parsed /\ last.t \in AppendLabels /\ last.uid \in DOMAIN Pre.oplog)
       => last.res = "DuplicateTransactionId" /\ Post = Pre
    /\ \A c \in DOMAIN created, i \in input.txs :
          created[c][i] = IF c \in DOMAIN accounts /\ i \in DOMAIN accounts[c].oplog
                          THEN 1 ELSE 0

C7_Witness ==
    /\ Parsed
    /\ last.t = "withdrawal"
    /\ last.uid \in DOMAIN Pre.oplog
    /\ PreRecord.k = "FinalDeposit"
    /\ last.res = "DuplicateTransactionId"
    /\ created[last.client_id][last.uid] = 1

\* C8: a Dispute, Resolve or Chargeback whose id is not in the oplog of its
\* own client is rejected with TransactionNotFound and changes no balance and
\* no record, neither of that client nor of any other client, also when
\* another client's oplog has the id.
C8_UnknownReference ==
    (Parsed /\ last.t \in ModifyLabels /\ last.uid \notin DOMAIN Pre.oplog)
    => /\ last.res = "TransactionNotFound"
       /\ Post = Pre
       /\ \A d \in DOMAIN prev : accounts[d] = prev[d]
       /\ DOMAIN accounts = DOMAIN prev \cup {last.client_id}

C8_Witness ==
    /\ Parsed
    /\ last.t \in ModifyLabels
    /\ last.res = "TransactionNotFound"
    /\ \E d \in DOMAIN prev :
          d # last.client_id /\ last.uid \in DOMAIN prev[d].oplog

\* C9: on an Open{av, held} account a Withdrawal{amt} with a new id is
\* rejected with InsufficientFunds exactly when amt > av and then changes
\* nothing; otherwise it is accepted, appends AfterWithdrawal under the id,
\* yields Open{av-amt, held}, and available is >= 0 after it.
C9_WithdrawalGuard ==
    (Parsed /\ last.t = "withdrawal" /\ Pre.state.tag = "Open"
       /\ last.uid \notin DOMAIN Pre.oplog)
    => IF F32Gt(last.amount, Pre.state.available)
       THEN last.res = "InsufficientFunds" /\ Post = Pre
       ELSE /\ last.res = "Ok"
            /\ Post.state = Open(F32Sub(Pre.state.available, last.amount),
                                 Pre.state.held)
            /\ DOMAIN Post.oplog = DOMAIN Pre.oplog \cup {last.uid}
            /\ Post.oplog[last.uid] = AfterWithdrawal
            /\ \A i \in DOMAIN Pre.oplog : Post.oplog[i] = Pre.oplog[i]
            /\ F32Ge(Post.state.available, Fin(0))

\* C10: on an Open{av, held} account a Deposit{amt} with amt > 0 and a new id
\* is accepted, yields Open{av+amt, held} (the f32 sum; available does not
\* decrease), and adds the one entry id -> RegularDeposit{amt}, every other
\* entry staying as it was.
C10_Deposit ==
    (Parsed /\ last.t = "deposit" /\ F32Gt(last.amount, Fin(0))
       /\ Pre.state.tag = "Open" /\ last.uid \notin DOMAIN Pre.oplog)
    => /\ last.res = "Ok"
       /\ Post.state = Open(F32Add(Pre.state.available, last.amount),
                            Pre.state.held)
       /\ IsNaN(Pre.state.available)
             \/ F32Ge(Post.state.available, Pre.state.available)
       /\ DOMAIN Post.oplog = DOMAIN Pre.oplog \cup {last.uid}
       /\ Post.oplog[last.uid] = RegularDeposit(last.amount)
       /\ \A i \in DOMAIN Pre.oplog : Post.oplog[i] = Pre.oplog[i]

C10_Witness ==
    /\ Accepted
    /\ last.t = "deposit"
    /\ F32Gt(last.amount, Fin(0))
    /\ DOMAIN Pre.oplog # {}
    /\ Pre.state.held # Fin(0)
    /\ Post.state.available # Pre.state.available

\* C11: a row rejected with a row-local error leaves the whole Ledger as it
\* was before the row: the same client ids and the same accounts, also when
\* the row is the first one of its client id.
C11_RejectionLeavesLedger == Rejected => accounts = prev

\* the outcome r of process_transaction is what the Ledger holds for the row
HoldsOutcome(r) == Post = r.a /\ last.res = r.res

\* C12: the Ledger holds one account per client id that apply_transaction was
\* called with, and no other; no account is ever removed; the row of a client
\* id seen for the first time is applied to Open{0, 0} with an empty oplog,
\* the row of a client already in the Ledger to the account it has there;
\* and the accounts of the other clients stay as they were.
C12_OneAccountPerClient ==
    /\ DOMAIN accounts = seen
    /\ DOMAIN prev \subseteq DOMAIN accounts
    /\ Parsed =>
          /\ DOMAIN accounts = DOMAIN prev \cup {last.client_id}
          /\ \A d \in DOMAIN prev \ {last.client_id} : accounts[d] = prev[d]
          /\ IF last.client_id \in DOMAIN prev
             THEN HoldsOutcome(process_transaction(last, prev[last.client_id]))
             ELSE HoldsOutcome(process_transaction(last, Account(Open(Fin(0), Fin(0)), EmptyMap)))
    /\ ~Parsed => accounts = prev

C12_Witness ==
    /\ Accepted
    /\ last.client_id \in DOMAIN prev
    /\ DOMAIN prev[last.client_id].oplog # {}
    /\ Post # prev[last.client_id]
    /\ DOMAIN Post.oplog # {last.uid}

\* the rows of the input file that deserialize and belong to the clients C
RowsOfClients(C) ==
    {RowOf(t, c, i, amt) :
        t \in AppendLabels, c \in C, i \in input.txs, amt \in input.amounts}
    \cup
    {RowOf(t, c, i, amt) :
        t \in Labels \ AppendLabels, c \in C, i \in input.txs, amt \in IgnoredAmounts}

\* second-then-first (o21 after o2) gives the Ledger and the two outcomes of
\* first-then-second (o12 after the last row)
SameEitherOrder(o12, o2, o21) ==
    /\ o12.l = o21.l
    /\ o12.res = o2.res
    /\ last.res = o21.res

\* C13: a row changes no account but its own client's; and the last row and
\* any row of another client give the same Ledger and the same two outcomes
\* in either order, so every interleaving that keeps the order of the rows
\* of each client ends in the same Ledger with the same outcomes.
C13_ClientsIndependent ==
    Parsed =>
       /\ \A d \in DOMAIN prev \ {last.client_id} : accounts[d] = prev[d]
       /\ \A row \in RowsOfClients(input.clients \ {last.client_id}) :
             SameEitherOrder(apply_transaction(row, accounts),
                             apply_transaction(row, prev),
                             apply_transaction(last, apply_transaction(row, prev).l))

C13_Witness ==
    /\ Accepted
    /\ \E d \in DOMAIN prev :
          /\ d # last.client_id
          /\ DOMAIN prev[d].oplog # {}
          /\ last.uid \in DOMAIN prev[d].oplog

\* the table the end-to-end example expects
ScenarioOutput ==
    [c \in ScenarioClients |->
        IF c = 1
        THEN [available |-> Fin(-2), held |-> Fin(5), total |-> Fin(3), locked |-> FALSE]
        ELSE [available |-> Fin(3), held |-> Fin(0), total |-> Fin(3), locked |-> FALSE]]

\* C14: the rows deposit,1,1,5.0; deposit,2,2,3.0; withdrawal,1,3,2.0;
\* dispute,1,1 read in that order from an empty Ledger are all accepted, and
\* the table printed then is client 1: available -2, held 5, total 3, not
\* locked; client 2: available 3, held 0, total 3, not locked.
C14_Scenario ==
    /\ (progress > 0 /\ progress = input.read) => last.res = "Ok"
    /\ progress = Len(Scenario) => Output(accounts) = ScenarioOutput

\* C15: a dispute, resolve or chargeback row of three fields (no amount) is
\* not reported as a row that fails to parse: it reaches process_transaction.
C15_AmountOptional ==
    (last.t \in ModifyLabels /\ last.amount = Absent) => last.res # "RowParseFailure"

\* the last row is an accepted Withdrawal of w, 0 < w <= amt, that follows
\* Deposit(id, amt) on a fresh account
WithdrawnAfterDeposit(id) ==
    /\ Accepted
    /\ last.t = "withdrawal"
    /\ input.read = 2
    /\ DOMAIN Pre.oplog = {id}
    /\ Pre.oplog[id].k = "RegularDeposit"
    /\ IsFin(Pre.oplog[id].amount)
    /\ F32Gt(last.amount, Fin(0))
    /\ F32Ge(Pre.oplog[id].amount, last.amount)

\* Chargeback(id) is accepted and leaves Locked{-w, 0}, w the last amount
ChargedBack(r) ==
    /\ r.res = "Ok"
    /\ r.a.state = Locked(F32Neg(last.amount), Fin(0))

\* Dispute(id) is accepted and Chargeback(id) after it ends as above
DisputedThenChargedBack(r, id) ==
    /\ r.res = "Ok"
    /\ ChargedBack(process_transaction(RowOf("chargeback", last.client_id, id, Fin(0)), r.a))

\* C16: a Dispute, Resolve or Chargeback of an Open account that refers to a
\* record of the kind it needs is accepted whatever the balances, and none is
\* rejected with InsufficientFunds; and after Deposit(id, amt) on a fresh
\* account and an accepted Withdrawal of w, 0 < w <= amt, Dispute(id) and
\* Chargeback(id) are accepted and end in Locked{-w, 0}.
C16_NoBalanceCheck ==
    /\ (Parsed /\ last.t \in ModifyLabels) =>
          /\ last.res # "InsufficientFunds"
          /\ ( /\ Pre.state.tag = "Open"
               /\ last.uid \in DOMAIN Pre.oplog
               /\ LegalReference(Pre.oplog[last.uid].k, last.t) ) => Accepted
    /\ \A id \in input.txs :
          WithdrawnAfterDeposit(id) =>
             DisputedThenChargedBack(
                process_transaction(RowOf("dispute", last.client_id, id, Fin(0)), Post), id)

\* the kind of record an accepted row of label t leaves under its id
KindAfter(t) ==
    IF t = "dispute" THEN "DisputedDeposit"
    ELSE IF t = "resolve" THEN "RegularDeposit"
    ELSE "FinalDeposit"

\* the result r handed to apply_result_to_account is in the account after it
InStep(r) ==
    r.kind = "ModifyOperation" =>
       /\ last.uid \in DOMAIN Pre.oplog
       /\ Post.state = r.state
       /\ Post.oplog = [Pre.oplog EXCEPT ![last.uid] = r.op]

\* C17: whenever apply_result_to_account receives a ModifyOperation for an
\* id, the id is a key of the oplog of the account; so an accepted Dispute,
\* Resolve or Chargeback sets the state and overwrites the record of its id
\* together.
C17_ModifyFindsRecord ==
    /\ Parsed => InStep(dispatch(last, Pre))
    /\ (Accepted /\ last.t \in ModifyLabels) =>
          /\ dispatch(last, Pre).kind = "ModifyOperation"
          /\ last.uid \in DOMAIN Post.oplog
          /\ Post.oplog[last.uid].k = KindAfter(last.t)

C17_Witness ==
    /\ Accepted
    /\ last.t = "resolve"
    /\ Cardinality(DOMAIN Pre.oplog) > 1
    /\ Post.state # Pre.state

\* one step of the life of a record: it stays, or a deposit goes from
\* RegularDeposit to DisputedDeposit, or from DisputedDeposit back to
\* RegularDeposit with the same amount or on to FinalDeposit
LegalStep(old, new) ==
    \/ new = old
    \/ old.k = "RegularDeposit" /\ new = DisputedDeposit(old.amount)
    \/ old.k = "DisputedDeposit" /\ new = RegularDeposit(old.amount)
    \/ old.k = "DisputedDeposit" /\ new = FinalDeposit

\* C18: a row deletes no entry of an oplog; AfterWithdrawal and FinalDeposit
\* records stay as they are; a deposit record moves only RegularDeposit ->
\* DisputedDeposit -> RegularDeposit or FinalDeposit and keeps its amount;
\* a new entry is a RegularDeposit or an AfterWithdrawal.
C18_RecordLifecycle ==
    \A c \in DOMAIN prev :
       /\ \A i \in DOMAIN prev[c].oplog :
             /\ i \in DOMAIN accounts[c].oplog
             /\ LegalStep(prev[c].oplog[i], accounts[c].oplog[i])
       /\ \A i \in DOMAIN accounts[c].oplog \ DOMAIN prev[c].oplog :
             accounts[c].oplog[i].k \in {"RegularDeposit", "AfterWithdrawal"}

C18_Witness ==
    /\ Accepted
    /\ last.t = "resolve"
    /\ \E i \in DOMAIN Post.oplog : Post.oplog[i].k = "AfterWithdrawal"
    /\ Post.oplog[last.uid] = RegularDeposit(PreRecord.amount)

\* the ids of the FinalDeposit records of an account
FinalDeposits(a) == {i \in DOMAIN a.oplog : a.oplog[i].k = "FinalDeposit"}

Disputed(a) == {i \in DOMAIN a.oplog : a.oplog[i].k = "DisputedDeposit"}

\* the sum, as a number, of the amounts of the records of ids
RECURSIVE SumOfAmounts(_, _)
SumOfAmounts(oplog, ids) ==
    IF ids = {} THEN 0
    ELSE oplog[CHOOSE i \in ids : TRUE].amount[2]
         + SumOfAmounts(oplog, ids \ {CHOOSE i \in ids : TRUE})

\* C19: in every account, Open or Locked, held is the sum of the amounts of
\* the DisputedDeposit records of its oplog, and so 0 when there is none.
\* Stated for the accounts all of whose amounts are finite numbers, with the
\* sum rounded to f32 once, the reading most favourable to the claim.
C19_HeldIsDisputedSum ==
    \A c \in DOMAIN accounts :
       FiniteAccount(accounts[c]) =>
          accounts[c].state.held
             = Fin(RoundF32(SumOfAmounts(accounts[c].oplog, Disputed(accounts[c]))))

====
